---- MODULE Spec2Model ----
(***************************************************************************)
(* AzureOpenAIProvider (providers/azure.py): deployment configuration,     *)
(* the per-API-version client cache, request translation and response      *)
(* normalisation of generate_content.                                      *)
(*                                                                         *)
(* Conventions.  A Python Optional is None == <<>> or Some(v) == <<v>>.    *)
(* A dict is a function whose DOMAIN is its key set.  Temperatures are     *)
(* integers in tenths (0.7 is 7).                                          *)
(***************************************************************************)
EXTENDS Integers, Sequences, FiniteSets, TLC

VARIABLES
    config,       \* the `deployments` mapping handed to __init__ (never written again)
    deployments,  \* self.deployments : name -> AzureDeployment
    clients,      \* self._clients    : api_version -> client
    nextId,       \* identity of the next client object to be constructed
    made,         \* api_version -> number of clients constructed so far
    pc,           \* sequential caller: "idle" | "done"
    call,         \* the operation just performed, its inputs and its outcome
    tpc,          \* racing thread -> position inside _get_client
    targ,         \* racing thread -> api_version it asked for
    tnew,         \* racing thread -> client it constructed, not yet stored
    tret,         \* racing thread -> what its last _get_client returned
    tlate,        \* racing thread -> its call began on a quiescent, filled cache
    ncalls,       \* calls of _get_client the racing threads have begun
    lastWritten   \* api_version -> client most recently stored in the cache

vars == <<config, deployments, clients, nextId, made, pc, call,
          tpc, targ, tnew, tret, tlate, ncalls, lastWritten>>

raceVars == <<tpc, targ, tnew, tret, tlate, ncalls, lastWritten>>

None == <<>>
Some(v) == <<v>>
EmptyDict == [k \in {} |-> None]

(***************************************************************************)
(* Bounds of the model.                                                    *)
(***************************************************************************)
MaxChunks == 3
NThreads == 2
MaxCalls == 3

(***************************************************************************)
(* Program constants.                                                      *)
(***************************************************************************)
DefaultContextWindow == 200000
RangeMin == 0
RangeMax == 20
RangeDefault == 7
DefaultApiVersion == "2025-01-01-preview"
ApiKey == "k"
EndpointUrl == "https://example.azure.com"
AllowedOptions == {"top_p", "frequency_penalty", "presence_penalty", "seed", "stop", "stream"}

(***************************************************************************)
(* Configuration mappings handed to the constructor.                       *)
(***************************************************************************)
\* DEPLOYMENTS of tests/test_azure_provider.py
TestDeployments ==
    ("o3" :> [deployment_name |-> "o3", streaming |-> TRUE,
              api_version |-> "2024-02-15", fixed_temperature |-> 10])
    @@ ("gpt-4.1" :> [deployment_name |-> "gpt-4-1", streaming |-> FALSE])

\* the keys the constructor reads
StreamKeyDeployments ==
    ("o3" :> [stream |-> FALSE, fixed_temperature |-> 0, context_window |-> 128000,
              supports_extended_thinking |-> TRUE])
    @@ ("gpt-4.1" :> [deployment_name |-> "gpt-4-1", stream |-> TRUE,
                      api_version |-> "2024-02-15"])

\* a fixed temperature outside 0.0-2.0, one deployment only
HotDeployments ==
    ("o3" :> [deployment_name |-> "o3-hot", fixed_temperature |-> 25, stream |-> FALSE])

\* values the constructor takes as they come
DegenerateDeployments ==
    ("gpt-4.1" :> [deployment_name |-> "", context_window |-> 0, streaming |-> FALSE])
    @@ ("o3" :> [k \in {} |-> None])

DeploymentInputs ==
    {TestDeployments, StreamKeyDeployments, HotDeployments, DegenerateDeployments}

ModelNames == {"o3", "gpt-4.1", "other"}
ApiVersions == {"2024-02-15", DefaultApiVersion}

(***************************************************************************)
(* __init__                                                                *)
(***************************************************************************)
\* cfg.get(key, default)
CfgGet(cfg, key, default) == IF key \in DOMAIN cfg THEN cfg[key] ELSE default

\* cfg.get(key): None when the key is absent
CfgGetOpt(cfg, key) == IF key \in DOMAIN cfg THEN Some(cfg[key]) ELSE None

AzureDeployment(name, cfg, default_api_version) ==
    [deployment_name            |-> CfgGet(cfg, "deployment_name", name),
     api_version                |-> CfgGet(cfg, "api_version", default_api_version),
     stream                     |-> CfgGet(cfg, "stream", TRUE),
     context_window             |-> CfgGet(cfg, "context_window", DefaultContextWindow),
     supports_extended_thinking |-> CfgGet(cfg, "supports_extended_thinking", FALSE),
     fixed_temperature          |-> CfgGetOpt(cfg, "fixed_temperature")]

InitDeployments(deps, default_api_version) ==
    [name \in DOMAIN deps |-> AzureDeployment(name, deps[name], default_api_version)]

(***************************************************************************)
(* Errors.  type is the Python class, kind the spec's error name; an       *)
(* error that carries no model name or no cause has "" there.              *)
(***************************************************************************)
Exc(type, kind, model_name, cause) ==
    [type |-> type, kind |-> kind, model_name |-> model_name, cause |-> cause]

Raised(exc) == [status |-> "raise", exc |-> exc]
Returned(value) == [status |-> "ok", value |-> value]

\* self.deployments[model_name] on a missing key
UnsupportedModelKeyError(model_name) == Exc("KeyError", "KeyError", model_name, "")
\* raise ValueError(f"Unsupported Azure deployment: {model_name}")
UnsupportedModelError(model_name) == Exc("ValueError", "UnsupportedModel", model_name, "")

\* config = self.deployments.get(model_name); if not config
Unsupported(deps, model_name) == model_name \notin DOMAIN deps

(***************************************************************************)
(* validate_model_name, supports_thinking_mode, get_capabilities           *)
(***************************************************************************)
validate_model_name(deps, model_name) == model_name \in DOMAIN deps

supports_thinking_mode(deps, model_name) ==
    model_name \in DOMAIN deps /\ deps[model_name].supports_extended_thinking

TemperatureConstraint(cfg) ==
    IF cfg.fixed_temperature # None
    THEN [kind |-> "fixed", value |-> cfg.fixed_temperature[1],
          min |-> cfg.fixed_temperature[1], max |-> cfg.fixed_temperature[1]]
    ELSE [kind |-> "range", value |-> RangeDefault, min |-> RangeMin, max |-> RangeMax]

get_capabilities(deps, model_name) ==
    IF Unsupported(deps, model_name)
    THEN Raised(UnsupportedModelError(model_name))
    ELSE Returned([provider                   |-> "azure",
                   model_name                 |-> model_name,
                   friendly_name              |-> "Azure OpenAI",
                   context_window             |-> deps[model_name].context_window,
                   supports_extended_thinking |-> deps[model_name].supports_extended_thinking,
                   supports_system_prompts    |-> TRUE,
                   supports_streaming         |-> deps[model_name].stream,
                   supports_function_calling  |-> TRUE,
                   temperature_constraint     |-> TemperatureConstraint(deps[model_name])])

\* the temperature constraint's validate(): exact match for Fixed, range check for Range
ConstraintAllows(constraint, temperature) ==
    IF constraint.kind = "fixed"
    THEN temperature = constraint.value
    ELSE constraint.min <= temperature /\ temperature <= constraint.max

\* self.validate_parameters(model_name, temperature): TRUE when it returns,
\* FALSE when it raises the invalid-parameter ValueError
validate_parameters(deps, model_name, temperature) ==
    ConstraintAllows(get_capabilities(deps, model_name).value.temperature_constraint,
                     temperature)

InvalidParameterError(model_name) == Exc("ValueError", "InvalidParameter", model_name, "")

(***************************************************************************)
(* _get_client                                                             *)
(***************************************************************************)
\* AzureOpenAI(api_key=..., azure_endpoint=..., api_version=...): a new object
AzureOpenAI(id, api_version) ==
    [id |-> id, api_key |-> ApiKey, azure_endpoint |-> EndpointUrl,
     api_version |-> api_version]

\* a cache that is never consulted
CacheMissAlways(cl, api_version) == TRUE
\* if api_version not in self._clients
CacheMiss(cl, api_version) == api_version \notin DOMAIN cl

\* a store that keeps the first entry (dict.setdefault)
StoreClientIfAbsent(cl, api_version, client) ==
    [v \in DOMAIN cl \cup {api_version} |-> IF v \in DOMAIN cl THEN cl[v] ELSE client]
\* self._clients[api_version] = client
StoreClient(cl, api_version, client) ==
    [v \in DOMAIN cl \cup {api_version} |-> IF v = api_version THEN client ELSE cl[v]]

\* raise ImportError("openai>=1.0.0 is required for Azure support") from e
DependencyMissingError == Exc("ImportError", "DependencyMissing", "", "ImportError")
\* whatever the AzureOpenAI constructor raises, untouched
ConstructorError == Exc("OpenAIError", "OpenAIError", "", "")

\* One sequential run of _get_client.  env.sdk: the import succeeds; env.ctor:
\* the constructor returns.  built lists the clients constructed by this run.
GetClient(cl, api_version, id, env) ==
    IF CacheMiss(cl, api_version)
    THEN IF ~env.sdk
         THEN [raised |-> TRUE, exc |-> DependencyMissingError, clients |-> cl,
               client |-> None, built |-> <<>>]
         ELSE IF ~env.ctor
         THEN [raised |-> TRUE, exc |-> ConstructorError, clients |-> cl,
               client |-> None, built |-> <<>>]
         ELSE LET stored == StoreClient(cl, api_version, AzureOpenAI(id, api_version))
              IN  [raised |-> FALSE, exc |-> None, clients |-> stored,
                   client |-> Some(stored[api_version]),
                   built |-> <<AzureOpenAI(id, api_version)>>]
    ELSE [raised |-> FALSE, exc |-> None, clients |-> cl,
          client |-> Some(cl[api_version]), built |-> <<>>]

(***************************************************************************)
(* generate_content: request translation                                   *)
(***************************************************************************)
\* the caller's temperature passed on as it came
CallerTemperature(cfg, temperature) == temperature
\* if config.fixed_temperature is not None: temperature = config.fixed_temperature
EffectiveTemperature(cfg, temperature) ==
    IF cfg.fixed_temperature # None THEN cfg.fixed_temperature[1] ELSE temperature

\* kwargs["stream"] = config.stream, whatever the caller gave
OverrideStream(kwargs, cfg) ==
    [k \in DOMAIN kwargs \cup {"stream"} |-> IF k = "stream" THEN cfg.stream ELSE kwargs[k]]
\* kwargs.setdefault("stream", config.stream)
SetDefaultStream(kwargs, cfg) ==
    [k \in DOMAIN kwargs \cup {"stream"} |->
        IF k \in DOMAIN kwargs THEN kwargs[k] ELSE cfg.stream]

\* Python truthiness of Optional[str] and Optional[int]
TruthyStr(o) == o # None /\ o[1] # ""
TruthyInt(o) == o # None /\ o[1] # 0

Messages(system_prompt, prompt) ==
    (IF TruthyStr(system_prompt)
     THEN <<[role |-> "system", content |-> system_prompt[1]]>> ELSE <<>>)
    \o <<[role |-> "user", content |-> prompt]>>

CompletionParams(cfg, messages, temperature, max_output_tokens, kwargs) ==
    LET keys == {"model", "messages", "temperature"}
                \cup (IF TruthyInt(max_output_tokens) THEN {"max_tokens"} ELSE {})
                \cup (DOMAIN kwargs \cap AllowedOptions)
    IN  [k \in keys |->
            CASE k = "model" -> cfg.deployment_name
              [] k = "messages" -> messages
              [] k = "temperature" -> temperature
              [] k = "max_tokens" -> max_output_tokens[1]
              [] OTHER -> kwargs[k]]

\* if kwargs.get("stream", False)
StreamMode(kwargs) == IF "stream" \in DOMAIN kwargs THEN kwargs["stream"] ELSE FALSE

(***************************************************************************)
(* generate_content: the vendor's replies and their normalisation          *)
(***************************************************************************)
Choice(content, finish_reason) == [content |-> content, finish_reason |-> finish_reason]

\* Chunks of a streamed completion.  The first is the content-filter prelude
\* Azure sends: no choices, empty id and model, created 0.
ChunkKinds ==
    { [choices |-> <<>>, model |-> Some(""), id |-> Some(""), created |-> Some(0)],
      [choices |-> <<Choice(Some("He"), None)>>,
       model |-> Some("gpt"), id |-> Some("1"), created |-> Some(17)],
      [choices |-> <<Choice(Some("llo"), Some("length"))>>,
       model |-> Some("gpt-b"), id |-> Some("2"), created |-> Some(18)],
      [choices |-> <<Choice(Some(""), Some("stop"))>>,
       model |-> None, id |-> None, created |-> None] }

ChunkSeqs == UNION {[1..n -> ChunkKinds] : n \in 0..MaxChunks}

\* Aggregate (non-streaming) completions; the first is the tests' fake response.
Aggregates ==
    { [choices |-> <<Choice(Some("ok"), Some("stop"))>>, model |-> Some("gpt"),
       id |-> Some("1"), created |-> Some(0),
       usage |-> Some([prompt_tokens |-> 1, completion_tokens |-> 1, total_tokens |-> 2])],
      [choices |-> <<Choice(None, Some("length"))>>, model |-> Some("gpt-b"),
       id |-> Some("2"), created |-> Some(18), usage |-> None],
      [choices |-> <<>>, model |-> Some("gpt"), id |-> Some("3"), created |-> Some(19),
       usage |-> None] }

\* raises: the chunk iterator raises once its chunks are delivered
StreamReply(chunks, raises) ==
    [kind |-> "stream", chunks |-> chunks, raises |-> raises, response |-> None]
AggregateReply(response) ==
    [kind |-> "aggregate", chunks |-> <<>>, raises |-> FALSE, response |-> Some(response)]

\* a stream may break before its first chunk or after it
Replies ==
    {StreamReply(cs, FALSE) : cs \in ChunkSeqs}
    \cup {StreamReply(cs, TRUE) : cs \in {c \in ChunkSeqs : Len(c) <= 1}}
    \cup {AggregateReply(a) : a \in Aggregates}

DefaultReply == StreamReply(<<>>, FALSE)

\* What the vendor does during one call of generate_content.  sdk: the import
\* of the SDK succeeds; ctor: the client constructor returns; create: the
\* completion call returns; reply: what it returns.
Env(sdk, ctor, create, reply) ==
    [sdk |-> sdk, ctor |-> ctor, create |-> create, reply |-> reply]

\* the loop's variables before the first chunk
StreamStart ==
    [content |-> "", finish_reason |-> None, model |-> None, response_id |-> None,
     created |-> None]

\* a loop body that keeps the first value of each metadata field
ConsumeChunkKeepFirst(acc, chunk) ==
    [content |->
        IF chunk.choices # <<>> /\ TruthyStr(chunk.choices[1].content)
        THEN acc.content \o chunk.choices[1].content[1] ELSE acc.content,
     finish_reason |->
        IF chunk.choices # <<>> /\ TruthyStr(chunk.choices[1].finish_reason)
           /\ acc.finish_reason = None
        THEN chunk.choices[1].finish_reason ELSE acc.finish_reason,
     model |-> IF TruthyStr(chunk.model) /\ acc.model = None
               THEN chunk.model ELSE acc.model,
     response_id |-> IF TruthyStr(chunk.id) /\ acc.response_id = None
                     THEN chunk.id ELSE acc.response_id,
     created |-> IF TruthyInt(chunk.created) /\ acc.created = None
                 THEN chunk.created ELSE acc.created]
\* the body of `for chunk in response`
ConsumeChunk(acc, chunk) ==
    [content |->
        IF chunk.choices # <<>> /\ TruthyStr(chunk.choices[1].content)
        THEN acc.content \o chunk.choices[1].content[1] ELSE acc.content,
     finish_reason |->
        IF chunk.choices # <<>> /\ TruthyStr(chunk.choices[1].finish_reason)
        THEN chunk.choices[1].finish_reason ELSE acc.finish_reason,
     model |-> IF TruthyStr(chunk.model) THEN chunk.model ELSE acc.model,
     response_id |-> IF TruthyStr(chunk.id) THEN chunk.id ELSE acc.response_id,
     created |-> IF TruthyInt(chunk.created) THEN chunk.created ELSE acc.created]

RECURSIVE ConsumeFrom(_, _)
ConsumeFrom(acc, chunks) ==
    IF chunks = <<>> THEN acc
    ELSE ConsumeFrom(ConsumeChunk(acc, Head(chunks)), Tail(chunks))

ModelResponse(content, usage, model_name, metadata) ==
    [content |-> content, usage |-> usage, model_name |-> model_name,
     friendly_name |-> "Azure OpenAI", provider |-> "azure", metadata |-> metadata]

StreamResponse(model_name, chunks) ==
    LET acc == ConsumeFrom(StreamStart, chunks)
    IN  ModelResponse(Some(acc.content), EmptyDict, model_name,
                      [finish_reason |-> acc.finish_reason, model |-> acc.model,
                       id |-> acc.response_id, created |-> acc.created])

\* self._extract_usage(response)
ExtractUsage(response) == IF response.usage = None THEN EmptyDict ELSE response.usage[1]

AggregateResponse(model_name, response) ==
    ModelResponse(response.choices[1].content, ExtractUsage(response), model_name,
                  [finish_reason |-> response.choices[1].finish_reason,
                   model |-> response.model, id |-> response.id,
                   created |-> response.created])

\* the cause re-raised as it is
Reraise(model_name, cause) == Exc(cause, cause, "", "")
\* raise RuntimeError(f"Azure OpenAI API error for model {model_name}: {e}") from e
WrapError(model_name, cause) == Exc("RuntimeError", "ProviderCallFailed", model_name, cause)

\* a failed call tried once more
IssueCallsWithRetry(params, env) == IF env.create THEN <<params>> ELSE <<params, params>>
\* the completion calls one run of the try block issues
IssueCalls(params, env) == <<params>>

\* The try block: the call and the normalisation of its reply in `mode`.
CallAndNormalize(model_name, mode, env) ==
    IF ~env.create THEN Raised(WrapError(model_name, "APIError"))
    ELSE IF mode
    THEN IF env.reply.kind # "stream" THEN Raised(WrapError(model_name, "TypeError"))
         ELSE IF env.reply.raises THEN Raised(WrapError(model_name, "APIError"))
         ELSE Returned(StreamResponse(model_name, env.reply.chunks))
    ELSE IF env.reply.kind # "aggregate"
         THEN Raised(WrapError(model_name, "AttributeError"))
         ELSE IF env.reply.response[1].choices = <<>>
         THEN Raised(WrapError(model_name, "IndexError"))
         ELSE Returned(AggregateResponse(model_name, env.reply.response[1]))

(***************************************************************************)
(* generate_content                                                        *)
(***************************************************************************)
\* What one call leaves behind: its outcome, the cache, the client it obtained,
\* the clients it constructed, the payloads it sent and the mode it read the
\* reply in.
Left(outcome, cl, client, built, calls, mode) ==
    [outcome |-> outcome, clients |-> cl, client |-> client, built |-> built,
     calls |-> calls, mode |-> mode]

generate_content(cl, deps, id, prompt, model_name, system_prompt, temperature, max_output_tokens, kwargs, env) ==
    IF Unsupported(deps, model_name)
    THEN Left(Raised(UnsupportedModelError(model_name)), cl, None, <<>>, <<>>, None)
    ELSE
    LET cfg == deps[model_name]
        temp == EffectiveTemperature(cfg, temperature)
    IN  IF ~validate_parameters(deps, model_name, temp)
        THEN Left(Raised(InvalidParameterError(model_name)), cl, None, <<>>, <<>>, None)
        ELSE
        LET kw == SetDefaultStream(kwargs, cfg)
            got == GetClient(cl, cfg.api_version, id, env)
        IN  IF got.raised
            THEN Left(Raised(got.exc), got.clients, None, got.built, <<>>, None)
            ELSE
            LET params == CompletionParams(cfg, Messages(system_prompt, prompt), temp,
                                           max_output_tokens, kw)
            IN  Left(CallAndNormalize(model_name, StreamMode(kw), env), got.clients,
                     got.client, got.built, IssueCalls(params, env),
                     Some(StreamMode(kw)))

(***************************************************************************)
(* Sequential use of one provider instance                                 *)
(***************************************************************************)
\* 0.2, the tests' value, and 2.5, outside every range
Temperatures == {2, 25}
SystemPrompts == {None, Some("be brief")}
MaxOutputTokens == {None, Some(256)}
KwargsInputs ==
    {EmptyDict, [stream |-> TRUE], [stream |-> FALSE], [top_p |-> 9, user |-> "u7"]}
ClientEnvs == {[sdk |-> a, ctor |-> b] : a, b \in BOOLEAN}

NoCall == [op |-> "none"]
Threads == 1..NThreads

InitProvider(deps) ==
    /\ config = deps
    /\ deployments = InitDeployments(deps, DefaultApiVersion)
    /\ clients = EmptyDict
    /\ nextId = 1
    /\ made = [v \in ApiVersions |-> 0]
    /\ pc = "idle"
    /\ call = NoCall
    /\ tpc = [t \in Threads |-> "idle"]
    /\ targ = [t \in Threads |-> DefaultApiVersion]
    /\ tnew = [t \in Threads |-> None]
    /\ tret = [t \in Threads |-> None]
    /\ tlate = [t \in Threads |-> FALSE]
    /\ ncalls = 0
    /\ lastWritten = [v \in ApiVersions |-> None]

Init == \E deps \in DeploymentInputs : InitProvider(deps)

\* the clients of `built` bound to api_version
BuiltFor(built, api_version) ==
    Cardinality({i \in DOMAIN built : built[i].api_version = api_version})

\* The vendor answers the payload it was sent: chunks when asked to stream, one
\* aggregate otherwise.  A reply nobody reads is the default one.
RepliesTo(left, create) ==
    IF left.calls # <<>> /\ create
    THEN {r \in Replies :
            r.kind = (IF left.calls[1]["stream"] THEN "stream" ELSE "aggregate")}
    ELSE {DefaultReply}

GenerateContent ==
    /\ pc = "idle"
    /\ \E model_name \in ModelNames, temperature \in Temperatures,
          system_prompt \in SystemPrompts, max_output_tokens \in MaxOutputTokens,
          kwargs \in KwargsInputs, failing \in {"", "sdk", "ctor", "create"} :
          LET sent == generate_content(clients, deployments, nextId, "p", model_name,
                                       system_prompt, temperature, max_output_tokens,
                                       kwargs,
                                       Env(failing # "sdk", failing # "ctor",
                                           failing # "create", DefaultReply))
              clean == generate_content(clients, deployments, nextId, "p", model_name,
                                        system_prompt, temperature, max_output_tokens,
                                        kwargs, Env(TRUE, TRUE, TRUE, DefaultReply))
          IN  \* a fault the call never meets is no input of its own
              /\ failing # "" => sent # clean
              /\ \E reply \in RepliesTo(sent, failing # "create") :
                 LET env == Env(failing # "sdk", failing # "ctor", failing # "create", reply)
                     left == generate_content(clients, deployments, nextId, "p", model_name,
                                              system_prompt, temperature, max_output_tokens,
                                              kwargs, env)
                 IN  /\ clients' = left.clients
                     /\ nextId' = nextId + Len(left.built)
                     /\ made' = [v \in ApiVersions |-> made[v] + BuiltFor(left.built, v)]
                     /\ call' = [op |-> "generate_content", model_name |-> model_name,
                                 temperature |-> temperature,
                                 system_prompt |-> system_prompt,
                                 max_output_tokens |-> max_output_tokens,
                                 kwargs |-> kwargs, env |-> env, before |-> clients,
                                 left |-> left]
    /\ pc' = "done"
    /\ UNCHANGED <<config, deployments, raceVars>>

GetClientCall ==
    /\ pc = "idle"
    /\ \E api_version \in ApiVersions, env \in ClientEnvs :
          LET got == GetClient(clients, api_version, nextId, env)
          IN  /\ clients' = got.clients
              /\ nextId' = nextId + Len(got.built)
              /\ made' = [v \in ApiVersions |-> made[v] + BuiltFor(got.built, v)]
              /\ call' = [op |-> "get_client", api_version |-> api_version,
                          env |-> env, before |-> clients,
                          left |-> Left(IF got.raised THEN Raised(got.exc)
                                        ELSE Returned(got.client[1]),
                                        got.clients, got.client, got.built, <<>>, None)]
    /\ pc' = "done"
    /\ UNCHANGED <<config, deployments, raceVars>>

Query(op, model_name, outcome) ==
    /\ call' = [op |-> op, model_name |-> model_name, before |-> clients,
                left |-> Left(outcome, clients, None, <<>>, <<>>, None)]
    /\ pc' = "done"
    /\ UNCHANGED <<config, deployments, clients, nextId, made, raceVars>>

GetCapabilities ==
    /\ pc = "idle"
    /\ \E model_name \in ModelNames :
          Query("get_capabilities", model_name, get_capabilities(deployments, model_name))

ValidateModelName ==
    /\ pc = "idle"
    /\ \E model_name \in ModelNames :
          Query("validate_model_name", model_name,
                Returned(validate_model_name(deployments, model_name)))

SupportsThinkingMode ==
    /\ pc = "idle"
    /\ \E model_name \in ModelNames :
          Query("supports_thinking_mode", model_name,
                Returned(supports_thinking_mode(deployments, model_name)))

\* the caller takes the result; the provider is ready for the next call
Return ==
    /\ pc = "done"
    /\ pc' = "idle"
    /\ call' = NoCall
    /\ UNCHANGED <<config, deployments, clients, nextId, made, raceVars>>

Next ==
    \/ GenerateContent
    \/ GetClientCall
    \/ GetCapabilities
    \/ ValidateModelName
    \/ SupportsThinkingMode
    \/ Return

Spec == Init /\ [][Next]_vars

(***************************************************************************)
(* Concurrent use: threads inside _get_client, one bytecode-level step at  *)
(* a time.  Nothing in the provider takes a lock.                          *)
(***************************************************************************)
RaceInit == InitProvider(TestDeployments)

Others(t) == Threads \ {t}
Quiescent(t) == \A u \in Others(t) : tpc[u] = "idle"

\* a thread enters _get_client(api_version), directly or from generate_content
Begin(t) ==
    /\ tpc[t] = "idle"
    /\ ncalls < MaxCalls
    /\ \E name \in DOMAIN deployments :
          /\ targ' = [targ EXCEPT ![t] = deployments[name].api_version]
          /\ tlate' = [tlate EXCEPT ![t] =
                          Quiescent(t) /\ deployments[name].api_version \in DOMAIN clients]
    /\ ncalls' = ncalls + 1
    /\ tpc' = [tpc EXCEPT ![t] = "check"]
    /\ tret' = [tret EXCEPT ![t] = None]
    /\ UNCHANGED <<config, deployments, clients, nextId, made, pc, call, tnew,
                   lastWritten>>

\* if api_version not in self._clients
Check(t) ==
    /\ tpc[t] = "check"
    /\ tpc' = [tpc EXCEPT ![t] =
                  IF CacheMiss(clients, targ[t]) THEN "construct" ELSE "return"]
    /\ UNCHANGED <<config, deployments, clients, nextId, made, pc, call, targ, tnew,
                   tret, tlate, ncalls, lastWritten>>

\* the import and the constructor call; the new object is not yet in the cache
Construct(t) ==
    /\ tpc[t] = "construct"
    /\ \/ /\ tnew' = [tnew EXCEPT ![t] = Some(AzureOpenAI(nextId, targ[t]))]
          /\ nextId' = nextId + 1
          /\ made' = [made EXCEPT ![targ[t]] = @ + 1]
          /\ tpc' = [tpc EXCEPT ![t] = "store"]
       \/ \* ImportError, or the constructor raises: the call ends here
          /\ tpc' = [tpc EXCEPT ![t] = "idle"]
          /\ UNCHANGED <<tnew, nextId, made>>
    /\ UNCHANGED <<config, deployments, clients, pc, call, targ, tret, tlate, ncalls,
                   lastWritten>>

\* self._clients[api_version] = <the new object>
Store(t) ==
    /\ tpc[t] = "store"
    /\ clients' = StoreClient(clients, targ[t], tnew[t][1])
    /\ lastWritten' = [lastWritten EXCEPT ![targ[t]] = tnew[t]]
    /\ tnew' = [tnew EXCEPT ![t] = None]
    /\ tpc' = [tpc EXCEPT ![t] = "return"]
    /\ UNCHANGED <<config, deployments, nextId, made, pc, call, targ, tret, tlate,
                   ncalls>>

\* return self._clients[api_version]
ReturnClient(t) ==
    /\ tpc[t] = "return"
    /\ tret' = [tret EXCEPT ![t] = Some(clients[targ[t]])]
    /\ tpc' = [tpc EXCEPT ![t] = "idle"]
    /\ UNCHANGED <<config, deployments, clients, nextId, made, pc, call, targ, tnew,
                   tlate, ncalls, lastWritten>>

RaceNext ==
    \E t \in Threads :
        \/ Begin(t)
        \/ Check(t)
        \/ Construct(t)
        \/ Store(t)
        \/ ReturnClient(t)

RaceSpec == RaceInit /\ [][RaceNext]_vars

(***************************************************************************)
(* Properties                                                              *)
(***************************************************************************)
Generated == pc = "done" /\ call.op = "generate_content"
Failed == call.left.outcome.status = "raise"
FailedValidation ==
    Failed /\ call.left.outcome.exc.kind \in {"UnsupportedModel", "InvalidParameter"}

\* C1: generate_content on a model name that is not a configured deployment
\* raises the UnsupportedModel ValueError having obtained no client, constructed
\* none and sent nothing to the vendor, and leaves the client cache as it was.
C1_UnsupportedModelFailsFirst ==
    (Generated /\ call.model_name \notin DOMAIN config) =>
        /\ Failed
        /\ call.left.outcome.exc.type = "ValueError"
        /\ call.left.outcome.exc.kind = "UnsupportedModel"
        /\ call.left.built = <<>>
        /\ call.left.client = None
        /\ call.left.calls = <<>>
        /\ clients = call.before

\* an unconfigured name asked of a provider whose cache already holds a client
C1_Witness ==
    /\ Generated
    /\ call.model_name \notin DOMAIN config
    /\ call.before # EmptyDict
    /\ call.left.outcome.status = "raise"

\* C2: on a deployment configured with fixed_temperature = T, generate_content
\* never fails with InvalidParameter, whatever temperature the caller gave, and
\* every completion call it issues carries temperature T.
C2_FixedTemperatureOverrides ==
    (Generated /\ call.model_name \in DOMAIN config
        /\ "fixed_temperature" \in DOMAIN config[call.model_name]) =>
        /\ ~(Failed /\ call.left.outcome.exc.kind = "InvalidParameter")
        /\ \A i \in DOMAIN call.left.calls :
              call.left.calls[i]["temperature"] = config[call.model_name]["fixed_temperature"]

\* the tests' case widened: T = 1.0, the caller asks for 2.5, the call is issued
C2_Witness ==
    /\ Generated
    /\ call.model_name \in DOMAIN config
    /\ "fixed_temperature" \in DOMAIN config[call.model_name]
    /\ config[call.model_name]["fixed_temperature"] = 10
    /\ call.temperature = 25
    /\ call.left.calls # <<>>
    /\ call.left.calls[1]["temperature"] = 10

\* the API version a finished get_client / generate_content asked a client for
RequestedVersion ==
    IF call.op = "get_client" THEN call.api_version
    ELSE deployments[call.model_name].api_version

\* C3: in sequential use at most one client is constructed per API version; a
\* call that finds the version cached gets that very instance, constructs
\* nothing and leaves the cache as it was; a call that misses constructs one
\* client, caches it and gets it.
C3_OneClientPerVersion ==
    /\ \A v \in ApiVersions : made[v] <= 1
    /\ (pc = "done" /\ call.op \in {"get_client", "generate_content"}
            /\ call.left.client # None) =>
          IF RequestedVersion \in DOMAIN call.before
          THEN /\ call.left.client = Some(call.before[RequestedVersion])
               /\ call.left.built = <<>>
               /\ clients = call.before
          ELSE /\ call.left.built = <<call.left.client[1]>>
               /\ call.left.client[1].api_version = RequestedVersion
               /\ clients[RequestedVersion] = call.left.client[1]
               /\ made[RequestedVersion] = 1

\* a later call for a version constructed earlier reuses the cached instance
C3_Witness ==
    /\ pc = "done"
    /\ call.op = "generate_content"
    /\ call.left.client # None
    /\ RequestedVersion \in DOMAIN call.before
    /\ call.left.client[1] = call.before[RequestedVersion]
    /\ made[RequestedVersion] = 1

\* C4, as the specification states it: every failure of generate_content after validation, the
\* client's construction included, reaches the caller as ProviderCallFailed
\* (RuntimeError) carrying the model name and the cause.
C4_EveryFailureWrapped ==
    (Generated /\ Failed /\ ~FailedValidation) =>
        /\ call.left.outcome.exc.type = "RuntimeError"
        /\ call.left.outcome.exc.kind = "ProviderCallFailed"
        /\ call.left.outcome.exc.model_name = call.model_name
        /\ call.left.outcome.exc.cause # ""

\* C4, as the code has it: a failure of the completion call or of reading its reply
\* reaches the caller as ProviderCallFailed (RuntimeError) carrying the model
\* name and the cause; a failure of obtaining the client escapes as it was
\* raised (ImportError for a missing SDK, else the constructor's own error),
\* with no completion call issued.
C4_CallFailuresWrapped ==
    (Generated /\ Failed /\ ~FailedValidation) =>
        LET miss == RequestedVersion \notin DOMAIN call.before
            exc == call.left.outcome.exc
        IN  IF miss /\ ~call.env.sdk
            THEN exc.type = "ImportError" /\ call.left.calls = <<>>
            ELSE IF miss /\ ~call.env.ctor
            THEN exc.type = "OpenAIError" /\ call.left.calls = <<>>
            ELSE /\ exc.type = "RuntimeError"
                 /\ exc.kind = "ProviderCallFailed"
                 /\ exc.model_name = call.model_name
                 /\ exc.cause = (IF ~call.env.create \/ call.env.reply.kind = "stream"
                                 THEN "APIError" ELSE "IndexError")

\* the chunk iterator breaks after the first chunk and the caller sees the wrapper
C4_Witness ==
    /\ Generated
    /\ call.env.create
    /\ call.env.reply.raises
    /\ Len(call.env.reply.chunks) = 1
    /\ Failed
    /\ call.left.outcome.exc.type = "RuntimeError"

\* C5: a deployment whose mapping entry sets `streaming` to s stores s as its
\* flag, and get_capabilities reports supports_streaming = s.
C5_StreamingFlagStored ==
    \A name \in DOMAIN config :
        "streaming" \in DOMAIN config[name] =>
            /\ deployments[name].stream = config[name]["streaming"]
            /\ (pc = "done" /\ call.op = "get_capabilities" /\ call.model_name = name) =>
                  call.left.outcome.value.supports_streaming = config[name]["streaming"]

\* the mode C6 expects: the explicit option if given, else the deployment's flag
ExpectedStream ==
    IF "stream" \in DOMAIN call.kwargs THEN call.kwargs["stream"]
    ELSE deployments[call.model_name].stream

\* C6: the `stream` value of every payload sent, and the mode the reply is read
\* in, are the caller's explicit `stream` option when given and the
\* deployment's flag otherwise; a reply read in streaming mode is assembled
\* from its chunks, any other from the single aggregate.
C6_StreamModeExplicitElseFlag ==
    (Generated /\ call.left.calls # <<>>) =>
        /\ \A i \in DOMAIN call.left.calls : call.left.calls[i]["stream"] = ExpectedStream
        /\ call.left.mode = Some(ExpectedStream)
        /\ ~Failed =>
              call.left.outcome.value =
                 (IF ExpectedStream
                  THEN StreamResponse(call.model_name, call.env.reply.chunks)
                  ELSE AggregateResponse(call.model_name, call.env.reply.response[1]))

\* an explicit stream=False on a deployment whose flag is True
C6_Witness ==
    /\ Generated
    /\ call.left.calls # <<>>
    /\ "stream" \in DOMAIN call.kwargs
    /\ call.kwargs["stream"] = FALSE
    /\ deployments[call.model_name].stream = TRUE
    /\ ~Failed
    /\ call.left.outcome.value.usage # EmptyDict

Max(S) == CHOOSE x \in S : \A y \in S : y <= x

\* the delta of chunk i, "" when it has none
DeltaOf(chunk) ==
    IF chunk.choices = <<>> \/ chunk.choices[1].content = None THEN ""
    ELSE chunk.choices[1].content[1]

\* the deltas of the first n chunks, joined in arrival order
RECURSIVE JoinedDeltas(_, _)
JoinedDeltas(chunks, n) ==
    IF n = 0 THEN "" ELSE JoinedDeltas(chunks, n - 1) \o DeltaOf(chunks[n])

FinishReasonOf(chunk) == IF chunk.choices = <<>> THEN None ELSE chunk.choices[1].finish_reason
ModelOf(chunk) == chunk.model
IdOf(chunk) == chunk.id
CreatedOf(chunk) == chunk.created

\* the last value of a field that is not one of its empty values, None if none
LastNonEmpty(chunks, Field(_), empties) ==
    LET carrying == {i \in DOMAIN chunks : Field(chunks[i]) \notin empties}
    IN  IF carrying = {} THEN None ELSE Field(chunks[Max(carrying)])

\* C7: a reply read in streaming mode yields the concatenation, in arrival
\* order, of the non-empty content deltas of all its chunks; finish_reason,
\* model, id and created are each the last non-empty value seen (None, "" and a
\* created of 0 being empty), None if no chunk carried one; usage is empty.
C7_StreamAssembly ==
    (Generated /\ ~Failed /\ call.left.mode = Some(TRUE)) =>
        LET chunks == call.env.reply.chunks
            response == call.left.outcome.value
        IN  /\ response.content = Some(JoinedDeltas(chunks, Len(chunks)))
            /\ response.metadata.finish_reason
                  = LastNonEmpty(chunks, FinishReasonOf, {None, Some("")})
            /\ response.metadata.model = LastNonEmpty(chunks, ModelOf, {None, Some("")})
            /\ response.metadata.id = LastNonEmpty(chunks, IdOf, {None, Some("")})
            /\ response.metadata.created = LastNonEmpty(chunks, CreatedOf, {None, Some(0)})
            /\ response.usage = EmptyDict

\* "He", "llo", then a final chunk with finish_reason "stop": content "Hello"
C7_Witness ==
    /\ Generated
    /\ ~Failed
    /\ call.left.mode = Some(TRUE)
    /\ Len(call.env.reply.chunks) = 3
    /\ call.left.outcome.value.content = Some("Hello")
    /\ call.left.outcome.value.metadata.finish_reason = Some("stop")
    /\ call.left.outcome.value.metadata.model = Some("gpt-b")

\* C8: every stored deployment has a non-empty vendor deployment name and a
\* context window above 0, and is what the constructor built from the mapping.
C8_DeploymentsValidAndFixed ==
    /\ deployments = InitDeployments(config, DefaultApiVersion)
    /\ \A name \in DOMAIN deployments :
          /\ deployments[name].deployment_name # ""
          /\ deployments[name].context_window > 0

\* C9: however the threads inside _get_client interleave, the cache holds for
\* each API version one client, bound to that version and the last one stored
\* for it; every caller gets a client bound to the version it asked for; and a
\* call begun once the racing calls are over and the version is cached
\* constructs nothing and gets the last-stored client.
C9_BenignRace ==
    /\ \A v \in DOMAIN clients :
          /\ clients[v].api_version = v
          /\ lastWritten[v] = Some(clients[v])
    /\ \A t \in Threads :
          /\ tret[t] # None => tret[t][1].api_version = targ[t]
          /\ tlate[t] => tpc[t] \notin {"construct", "store"}
          /\ (tlate[t] /\ tret[t] # None) => tret[t] = lastWritten[targ[t]]

\* two clients were constructed for one version, the race is over, and a later
\* call returned the survivor
C9_Witness ==
    /\ \E v \in ApiVersions : made[v] >= 2
    /\ \A t \in Threads : tpc[t] = "idle"
    /\ \E t \in Threads :
          /\ tlate[t]
          /\ tret[t] # None
          /\ made[targ[t]] >= 2
          /\ tret[t] = lastWritten[targ[t]]

\* C10: a generate_content invocation issues at most one completion call; one
\* that fails validation issues none and has neither obtained nor constructed a
\* client; one whose completion call fails reports the error after that single
\* call.
C10_AtMostOneCall ==
    Generated =>
        /\ Len(call.left.calls) <= 1
        /\ FailedValidation =>
              /\ call.left.calls = <<>>
              /\ call.left.client = None
              /\ call.left.built = <<>>
              /\ clients = call.before
        /\ (call.left.client # None /\ ~call.env.create) =>
              /\ Len(call.left.calls) = 1
              /\ Failed

\* the completion call fails: one call was issued, the error is reported
C10_Witness ==
    /\ Generated
    /\ call.left.client # None
    /\ ~call.env.create
    /\ Len(call.left.calls) = 1
    /\ Failed

====
